---- MODULE Spec2Model ----
(***************************************************************************)
(* Model of the calendar feed aggregator: the FetchICS line scanner and    *)
(* event extractor (fetcher package) and the fan-in aggregateICS handler   *)
(* (main package).                                                         *)
(*                                                                         *)
(* A Go string is modelled as a sequence of tokens.  The tokens are the    *)
(* two marker texts, one ordinary text, the carriage return and the line   *)
(* feed; string concatenation is \o and string equality is sequence        *)
(* equality, so a line is a marker only if it is token for token the       *)
(* marker text followed by one of the two terminators.                     *)
(***************************************************************************)
EXTENDS Integers, Sequences, FiniteSets, Bags, TLC

\* ------------------------------------------------------------------ bounds
MaxLines == 3        \* lines of a body in the scanner specification
MaxEvents == 1       \* chunks of a body in the aggregator specification
MaxCalEvents == 2    \* events of a calendar given to combineCalendars

\* --------------------------------------------------------------- constants
BEGIN == "BEGIN:VEVENT"
END == "END:VEVENT"
TEXT == "SUMMARY:x"
CR == "\r"
LF == "\n"

ColombianHolidaysURL == "https://www.officeholidays.com/ics/ics_country.php?tbl_country=Colombia"
CanadianHolidaysURL == "https://www.officeholidays.com/ics/ics_country.php?tbl_country=Canada"

\* icsURLs := []string{ColombianHolidaysURL, CanadianHolidaysURL}
icsURLs == <<ColombianHolidaysURL, CanadianHolidaysURL>>

Sources == 1..Len(icsURLs)

\* config.ICS.Header and config.ICS.Footer, opaque texts
Header == <<"HEADER">>
Footer == <<"FOOTER">>

\* ------------------------------------------------------- sequence helpers
RECURSIVE Flatten(_)
Flatten(ss) == IF ss = <<>> THEN <<>> ELSE Head(ss) \o Flatten(Tail(ss))

SeqsUpTo(S, n) == UNION {[1..k -> S] : k \in 0..n}

Last(s) == s[Len(s)]

Min(S) == CHOOSE x \in S : \A y \in S : x <= y

\* ------------------------------------------------------ the line scanner
\* reader.ReadString('\n') at position pos of the stream: the bytes up to
\* and including the first line feed; when there is none, the remaining
\* bytes together with io.EOF.
ReadString(stream, pos) ==
    LET nl == {i \in pos..Len(stream) : stream[i] = LF}
    IN  IF nl = {}
        THEN [line |-> SubSeq(stream, pos, Len(stream)), err |-> "EOF",
              next |-> Len(stream) + 1]
        ELSE [line |-> SubSeq(stream, pos, Min(nl)), err |-> "nil",
              next |-> Min(nl) + 1]

\* line == "BEGIN:VEVENT\r\n" || line == "BEGIN:VEVENT\n"
IsBeginLFOnly(line) == line = <<BEGIN, LF>>
IsBegin(line) == line = <<BEGIN, CR, LF>> \/ line = <<BEGIN, LF>>

\* line == "END:VEVENT\r\n" || line == "END:VEVENT\n"
IsEnd(line) == line = <<END, CR, LF>> \/ line = <<END, LF>>

\* The sentinel units
FetchErrorUnit(url) == <<"Error fetching URL: ", url>>
ReadErrorUnit(url) == <<"Error reading response body: ", url>>

\* the same pass with the InEvent test made before the begin-marker test
ScanStepAppendBegin(st, line) ==
    IF st.inEvent
    THEN [event |-> st.event \o line, inEvent |-> TRUE, send |-> IsEnd(line),
          drop |-> "none"]
    ELSE IF IsBegin(line)
         THEN [event |-> line, inEvent |-> TRUE, send |-> FALSE,
               drop |-> "buffer"]
         ELSE [event |-> st.event, inEvent |-> FALSE, send |-> FALSE,
               drop |-> "line"]

\* the same pass without the `if inEvent` guard of line 53
ScanStepNoGuard(st, line) ==
    IF IsBegin(line)
    THEN [event |-> line, inEvent |-> TRUE, send |-> FALSE, drop |-> "buffer"]
    ELSE [event |-> st.event \o line, inEvent |-> st.inEvent,
          send |-> IsEnd(line), drop |-> "none"]

\* One pass of the loop body after a successful read (lines 45-60), on the
\* extractor state st = [event, inEvent]: the new state, whether the
\* accumulated event is sent, and what the pass lets go of: the old buffer
\* (overwritten at line 48), the line (neither test holds) or nothing.
ScanStep(st, line) ==
    IF IsBegin(line)
    THEN [event |-> line, inEvent |-> TRUE, send |-> FALSE, drop |-> "buffer"]
    ELSE IF st.inEvent
         THEN [event |-> st.event \o line, inEvent |-> TRUE,
               send |-> IsEnd(line), drop |-> "none"]
         ELSE [event |-> st.event, inEvent |-> FALSE, send |-> FALSE,
               drop |-> "line"]

\* FetchICS on a body that is read without error, as a function: the
\* sequence of units it sends.
RECURSIVE ScanFrom(_, _, _)
ScanFrom(stream, pos, st) ==
    LET r == ReadString(stream, pos)
    IN  IF r.err = "EOF"
        THEN IF st.event # <<>> THEN <<st.event>> ELSE <<>>
        ELSE LET n == ScanStep(st, r.line)
             IN  IF n.send
                 THEN <<n.event>> \o
                      ScanFrom(stream, r.next, [event |-> <<>>, inEvent |-> FALSE])
                 ELSE ScanFrom(stream, r.next,
                               [event |-> n.event, inEvent |-> n.inEvent])

FetchUnits(stream) == ScanFrom(stream, 1, [event |-> <<>>, inEvent |-> FALSE])

\* ----------------------------------------------------------------- inputs
ScanLines == {<<BEGIN, LF>>, <<BEGIN, CR, LF>>, <<END, LF>>, <<END, CR, LF>>,
              <<TEXT, LF>>}
ScanTails == {<<>>, <<END>>, <<TEXT>>}
ScanStreams == {Flatten(ls) \o t : ls \in SeqsUpTo(ScanLines, MaxLines),
                                    t \in ScanTails}

AggChunks == {<<BEGIN, LF, TEXT, LF, END, LF>>, <<BEGIN, CR, LF, END, CR, LF>>}
AggTails == {<<>>, <<BEGIN, LF, TEXT>>}
AggStreams == {Flatten(cs) \o t : cs \in SeqsUpTo(AggChunks, MaxEvents),
                                   t \in AggTails}
LiveStreams == {Flatten(cs) \o t : cs \in [1..MaxEvents -> AggChunks],
                                    t \in AggTails}

\* ------------------------------------------------------------------ state
VARIABLES
    body,       \* per source: the bytes the response body will deliver
    fpc,        \* per source: position of the fetcher goroutine
    pos,        \* per source: read position of the bufio.Reader
    event,      \* per source: FetchICS local `event`
    inEvent,    \* per source: FetchICS local `inEvent`
    respBody,   \* per source: how often resp.Body was opened and closed
    fetches,    \* per source: number of http.Get calls
    reads,      \* per source: number of ReadString calls
    failed,     \* per source: "none", "conn" or "read"
    produced,   \* per source: units handed to a send statement, in order
    dropped,    \* per source: positions of the bytes of lines read and not kept
    wg,         \* sync.WaitGroup counter
    closes,     \* number of close(eventChan) executed
    panicked,   \* a send on the closed channel happened
    mpc,        \* position of the handler goroutine (aggregateICS)
    launched,   \* number of fetcher goroutines started
    cpc,        \* position of the closer goroutine
    recvUnit,   \* the unit the stream step holds between receive and write
    received,   \* units received from the channel, in order, with origin
    out,        \* chunks written to c.Writer, in order
    cal1,       \* combineCalendars: the events of its first argument
    cal2,       \* combineCalendars: the events of its second argument
    events,     \* combineCalendars: the local slice `events`
    combinedCal,\* combineCalendars: the events added to combinedCal
    kpc,        \* combineCalendars: position of the call
    addIdx      \* combineCalendars: index of the range loop of line 187

vars == <<body, fpc, pos, event, inEvent, respBody, fetches, reads, failed,
          produced, dropped, wg, closes, panicked, mpc, launched, cpc, recvUnit,
          received, out, cal1, cal2, events, combinedCal, kpc, addIdx>>

calVars == <<cal1, cal2, events, combinedCal, kpc, addIdx>>

fetcherVars == <<fpc, pos, event, inEvent, respBody, fetches, reads, failed,
                 produced, dropped>>
handlerVars == <<mpc, launched, recvUnit, received, out>>

SendStates == {"sendFetchErr", "sendReadErr", "sendEvent", "sendRemaining"}

InitHandler ==
    /\ fpc = [s \in Sources |-> "notLaunched"]
    /\ pos = [s \in Sources |-> 1]
    /\ event = [s \in Sources |-> <<>>]
    /\ inEvent = [s \in Sources |-> FALSE]
    /\ respBody = [s \in Sources |-> [opens |-> 0, closes |-> 0]]
    /\ fetches = [s \in Sources |-> 0]
    /\ reads = [s \in Sources |-> 0]
    /\ failed = [s \in Sources |-> "none"]
    /\ produced = [s \in Sources |-> <<>>]
    /\ dropped = [s \in Sources |-> {}]
    /\ wg = 0
    /\ closes = 0
    /\ panicked = FALSE
    /\ mpc = "launch"
    /\ launched = 0
    /\ cpc = "notStarted"
    /\ recvUnit = <<>>
    /\ received = <<>>
    /\ out = <<>>

\* combineCalendars is not called by the handler
CalNotCalled ==
    /\ cal1 = <<>>
    /\ cal2 = <<>>
    /\ events = <<>>
    /\ combinedCal = <<>>
    /\ kpc = "notCalled"
    /\ addIdx = 0

InitRest ==
    /\ InitHandler
    /\ CalNotCalled

Init ==
    /\ body \in [Sources -> AggStreams]
    /\ InitRest

InitLive ==
    /\ body \in [Sources -> LiveStreams]
    /\ InitRest

InitScan ==
    /\ body \in {[s \in Sources |-> IF s = 1 THEN b ELSE <<>>] : b \in ScanStreams}
    /\ InitRest

\* ------------------------------------------------ the fetcher goroutines
URL(s) == icsURLs[s]

\* A unit reaches a send statement: it is recorded with the statement and
\* the read position at which it was completed.
Emit(p, unit, kind, at) == Append(p, [unit |-> unit, kind |-> kind, at |-> at])

\* the value a blocked send statement hands over: the unit it was given
SentUnitFirst(p) == Head(p).unit
SentUnit(p) == Last(p).unit

\* a send that does not wait for the receiver, as on a buffered channel
SendPcBuffered(kind) == IF kind = "sendEvent" THEN "read" ELSE kind

\* eventChan <- unit on the unbuffered channel (line 265): the sender stays
\* at the send statement until the unit is received; when the channel is
\* already closed the send panics
SendPc(kind) == IF closes > 0 THEN "panicked" ELSE kind

\* FetchICS returns: the resp.Body.Close() deferred at line 29 runs, once
\* for the body the call opened
BodyLeaked(b) == b
BodyAfterReturn(b) == [b EXCEPT !.closes = @ + b.opens]

\* Where FetchICS continues once a send has completed: return after either
\* sentinel (lines 27, 39), back to the loop after a completed event
\* (lines 57-60), fall off the end after the final flush (line 66).
ContinueBreakOnReadError(kind) ==
    CASE kind = "sendFetchErr" -> "returned"
      [] kind = "sendReadErr" -> "flush"
      [] kind = "sendEvent" -> "read"
      [] kind = "sendRemaining" -> "returned"
ContinueRetryOnFetchError(kind) ==
    CASE kind = "sendFetchErr" -> "get"
      [] kind = "sendReadErr" -> "returned"
      [] kind = "sendEvent" -> "read"
      [] kind = "sendRemaining" -> "returned"
Continue(kind) ==
    CASE kind = "sendFetchErr" -> "returned"
      [] kind = "sendReadErr" -> "returned"
      [] kind = "sendEvent" -> "read"
      [] kind = "sendRemaining" -> "returned"

\* if event != "" (line 64)
FlushNever(ev) == FALSE
FlushNeeded(ev) == ev # <<>>

\* resp, err := http.Get(url) with err != nil: the sentinel is sent
HttpGetFail(s) ==
    /\ fpc[s] = "get"
    /\ fetches' = [fetches EXCEPT ![s] = @ + 1]
    /\ failed' = [failed EXCEPT ![s] = "conn"]
    /\ produced' = [produced EXCEPT ![s] =
                     Emit(@, FetchErrorUnit(URL(s)), "sendFetchErr", pos[s])]
    /\ fpc' = [fpc EXCEPT ![s] = SendPc("sendFetchErr")]
    /\ panicked' = (panicked \/ closes > 0)
    /\ UNCHANGED <<calVars, body, dropped, pos, event, inEvent, respBody, reads, wg, closes,
                   cpc>>
    /\ UNCHANGED handlerVars

\* http.Get succeeds: the body is open, the reader and the locals are set up
HttpGetOk(s) ==
    /\ fpc[s] = "get"
    /\ fetches' = [fetches EXCEPT ![s] = @ + 1]
    /\ respBody' = [respBody EXCEPT ![s].opens = @ + 1]
    /\ pos' = [pos EXCEPT ![s] = 1]
    /\ event' = [event EXCEPT ![s] = <<>>]
    /\ inEvent' = [inEvent EXCEPT ![s] = FALSE]
    /\ fpc' = [fpc EXCEPT ![s] = "read"]
    /\ UNCHANGED <<calVars, body, dropped, reads, failed, produced, wg, closes, panicked, cpc>>
    /\ UNCHANGED handlerVars

\* reader.ReadString fails with an error other than io.EOF (lines 37-38)
ReadError(s) ==
    /\ fpc[s] = "read"
    /\ reads' = [reads EXCEPT ![s] = @ + 1]
    /\ failed' = [failed EXCEPT ![s] = "read"]
    /\ produced' = [produced EXCEPT ![s] =
                     Emit(@, ReadErrorUnit(URL(s)), "sendReadErr", pos[s])]
    /\ fpc' = [fpc EXCEPT ![s] = SendPc("sendReadErr")]
    /\ panicked' = (panicked \/ closes > 0)
    /\ UNCHANGED <<calVars, body, dropped, pos, event, inEvent, respBody, fetches, wg, closes,
                   cpc>>
    /\ UNCHANGED handlerVars

\* reader.ReadString reports io.EOF: break (lines 41-43); what was read of
\* an unterminated last line is dropped with it
ReadEOF(s) ==
    /\ fpc[s] = "read"
    /\ ReadString(body[s], pos[s]).err = "EOF"
    /\ reads' = [reads EXCEPT ![s] = @ + 1]
    /\ pos' = [pos EXCEPT ![s] = ReadString(body[s], pos[s]).next]
    /\ dropped' = [dropped EXCEPT ![s] = @ \cup (pos[s]..Len(body[s]))]
    /\ fpc' = [fpc EXCEPT ![s] = "flush"]
    /\ UNCHANGED <<calVars, body, event, inEvent, respBody, fetches, failed, produced,
                   wg, closes, panicked, cpc>>
    /\ UNCHANGED handlerVars

\* The positions of the bytes that a pass of the loop body lets go of, the
\* line read being the bytes from..next-1 and the old buffer the bytes just
\* before it.
Discarded(drop, old, from, next) ==
    CASE drop = "line" -> from..(next - 1)
      [] drop = "buffer" -> (from - Len(old))..(from - 1)
      [] OTHER -> {}

\* reader.ReadString returns a terminated line: lines 45-60 up to the send
ReadLine(s) ==
    /\ fpc[s] = "read"
    /\ ReadString(body[s], pos[s]).err = "nil"
    /\ LET r == ReadString(body[s], pos[s])
           n == ScanStep([event |-> event[s], inEvent |-> inEvent[s]], r.line)
       IN  /\ reads' = [reads EXCEPT ![s] = @ + 1]
           /\ pos' = [pos EXCEPT ![s] = r.next]
           /\ event' = [event EXCEPT ![s] = n.event]
           /\ inEvent' = [inEvent EXCEPT ![s] = n.inEvent]
           /\ dropped' = [dropped EXCEPT ![s] =
                             @ \cup Discarded(n.drop, event[s], pos[s], r.next)]
           /\ IF n.send
              THEN /\ produced' = [produced EXCEPT ![s] =
                                     Emit(@, n.event, "sendEvent", r.next)]
                   /\ fpc' = [fpc EXCEPT ![s] = SendPc("sendEvent")]
                   /\ panicked' = (panicked \/ closes > 0)
              ELSE UNCHANGED <<produced, fpc, panicked>>
    /\ UNCHANGED <<calVars, body, respBody, fetches, failed, wg, closes, cpc>>
    /\ UNCHANGED handlerVars

\* after the loop: send any remaining event data (lines 64-66), or return
Flush(s) ==
    /\ fpc[s] = "flush"
    /\ IF FlushNeeded(event[s])
       THEN /\ produced' = [produced EXCEPT ![s] =
                              Emit(@, event[s], "sendRemaining", pos[s])]
            /\ fpc' = [fpc EXCEPT ![s] = SendPc("sendRemaining")]
            /\ panicked' = (panicked \/ closes > 0)
            /\ UNCHANGED respBody
       ELSE /\ fpc' = [fpc EXCEPT ![s] = "returned"]
            /\ respBody' = [respBody EXCEPT ![s] = BodyAfterReturn(@)]
            /\ UNCHANGED <<produced, panicked>>
    /\ UNCHANGED <<calVars, body, dropped, pos, event, inEvent, fetches, reads, failed, wg,
                   closes, cpc>>
    /\ UNCHANGED handlerVars

\* defer wg.Done() of the goroutine wrapping FetchICS (line 272)
AfterDoneForgotten(w) == w
AfterDone(w) == w - 1

WgDone(s) ==
    /\ fpc[s] = "returned"
    /\ wg' = AfterDone(wg)
    /\ fpc' = [fpc EXCEPT ![s] = "exited"]
    /\ UNCHANGED <<calVars, body, dropped, pos, event, inEvent, respBody, fetches, reads,
                   failed, produced, closes, panicked, cpc>>
    /\ UNCHANGED handlerVars

\* ------------------------------------------------------ the closer goroutine
\* wg.Wait() returns when the counter is zero
WaitOverEarly(w) == w <= 1
WaitOver(w) == w = 0

WgWait ==
    /\ cpc = "wait"
    /\ WaitOver(wg)
    /\ cpc' = "close"
    /\ UNCHANGED <<calVars, body, wg, closes, panicked>>
    /\ UNCHANGED fetcherVars
    /\ UNCHANGED handlerVars

\* close(eventChan): a goroutine blocked in a send on the channel panics
CloseChan ==
    /\ cpc = "close"
    /\ closes' = closes + 1
    /\ cpc' = "done"
    /\ fpc' = [s \in Sources |-> IF fpc[s] \in SendStates THEN "panicked"
                                                          ELSE fpc[s]]
    /\ panicked' = (panicked \/ closes > 0 \/ \E s \in Sources : fpc[s] \in SendStates)
    /\ UNCHANGED <<calVars, body, dropped, pos, event, inEvent, respBody, fetches, reads,
                   failed, produced, wg>>
    /\ UNCHANGED handlerVars

\* --------------------------------------------------- the handler goroutine
\* wg.Add(1)
AfterAddMissing(w) == w
AfterAdd(w) == w + 1

\* one iteration of the launch loop: wg.Add(1); go func(url) {...}(url)
Launch ==
    /\ mpc = "launch"
    /\ launched < Len(icsURLs)
    /\ wg' = AfterAdd(wg)
    /\ launched' = launched + 1
    /\ fpc' = [fpc EXCEPT ![launched + 1] = "get"]
    /\ UNCHANGED <<calVars, body, dropped, pos, event, inEvent, respBody, fetches, reads,
                   failed, produced, closes, panicked, cpc, mpc, recvUnit,
                   received, out>>

\* the loop is over: go func() { wg.Wait(); close(eventChan) }()
GoCloser ==
    /\ mpc = "launch"
    /\ launched = Len(icsURLs)
    /\ cpc' = "wait"
    /\ mpc' = "header"
    /\ UNCHANGED <<calVars, body, wg, closes, panicked, launched, recvUnit, received,
                   out>>
    /\ UNCHANGED fetcherVars

\* c.Writer.Write(chunk)
WritePrepend(o, chunk) == <<chunk>> \o o
Write(o, chunk) == Append(o, chunk)

\* writeICSHeader(c)
WriteHeader ==
    /\ mpc = "header"
    /\ out' = Write(out, Header)
    /\ mpc' = "stream"
    /\ UNCHANGED <<calVars, body, wg, closes, panicked, launched, cpc, recvUnit,
                   received>>
    /\ UNCHANGED fetcherVars

\* event, ok := <-eventChan with ok true: the unbuffered channel hands the
\* unit of a blocked sender s to the stream step; the sender continues
Receive(s) ==
    /\ mpc = "stream"
    /\ closes = 0
    /\ fpc[s] \in SendStates
    /\ LET unit == SentUnit(produced[s])
           next == Continue(fpc[s])
       IN  /\ recvUnit' = unit
           /\ received' = Append(received,
                                 [src |-> s, unit |-> unit, at |-> pos[s],
                                  kind |-> fpc[s]])
           /\ fpc' = [fpc EXCEPT ![s] = next]
           /\ IF fpc[s] = "sendEvent"
              THEN /\ inEvent' = [inEvent EXCEPT ![s] = FALSE]
                   /\ event' = [event EXCEPT ![s] = <<>>]
              ELSE UNCHANGED <<inEvent, event>>
           /\ respBody' = [respBody EXCEPT ![s] =
                             IF next = "returned" THEN BodyAfterReturn(@) ELSE @]
    /\ mpc' = "write"
    /\ UNCHANGED <<calVars, body, dropped, pos, fetches, reads, failed, produced, wg, closes,
                   panicked, launched, cpc, out>>

\* c.Writer.Write([]byte(event)); return true
WriteEvent ==
    /\ mpc = "write"
    /\ out' = Write(out, recvUnit)
    /\ mpc' = "stream"
    /\ UNCHANGED <<calVars, body, wg, closes, panicked, launched, cpc, recvUnit,
                   received>>
    /\ UNCHANGED fetcherVars

\* event, ok := <-eventChan with ok false: the channel is closed; return false
ReceiveClosed ==
    /\ mpc = "stream"
    /\ closes > 0
    /\ mpc' = "footer"
    /\ UNCHANGED <<calVars, body, wg, closes, panicked, launched, cpc, recvUnit,
                   received, out>>
    /\ UNCHANGED fetcherVars

\* writeICSFooter(c)
WriteFooter ==
    /\ mpc = "footer"
    /\ out' = Write(out, Footer)
    /\ mpc' = "done"
    /\ UNCHANGED <<calVars, body, wg, closes, panicked, launched, cpc, recvUnit,
                   received>>
    /\ UNCHANGED fetcherVars

\* ------------------------------------------------------- combineCalendars
\* A raw DTSTART value is a string of digits, modelled as the sequence of
\* its digits.  startTimeI < startTimeJ on Go strings is the bytewise
\* lexicographic order.
RECURSIVE StrLessReversed(_, _)
StrLessReversed(a, b) ==
    IF a = <<>> THEN FALSE
    ELSE IF b = <<>> THEN TRUE
    ELSE IF Head(a) # Head(b) THEN Head(a) > Head(b)
    ELSE StrLessReversed(Tail(a), Tail(b))
RECURSIVE StrLess(_, _)
StrLess(a, b) ==
    IF b = <<>> THEN FALSE
    ELSE IF a = <<>> THEN TRUE
    ELSE IF Head(a) # Head(b) THEN Head(a) < Head(b)
    ELSE StrLess(Tail(a), Tail(b))

\* the less function given to sort.Slice (lines 181-185)
Less(ei, ej) == StrLess(ei.dtstart, ej.dtstart)

\* sort.Slice(events, less): the slice is left as a permutation of itself
\* in which no element is less than an earlier one.  The sort is not
\* guaranteed to be stable, so every such permutation is a possible result.
SortSliceOutcomes(ev) ==
    {q \in {[i \in 1..Len(ev) |-> ev[f[i]]] : f \in Permutations(1..Len(ev))} :
        \A i, j \in 1..Len(ev) : i < j => ~Less(q[j], q[i])}

\* the DTSTART values of the inputs: the three of the test calendars and a
\* shorter one
DtStarts == {<<2,0,2,3,0,1,0,1>>, <<2,0,2,3,0,7,0,1>>, <<2,0,2,3,0,7,2,0>>,
             <<2,0,2,4>>}

\* cal.Events() of calendar number c: pointers to its events, in order
EventsOf(c, ds) == [i \in 1..Len(ds) |-> [id |-> <<c, i>>, dtstart |-> ds[i]]]

InitCombine ==
    /\ body = [s \in Sources |-> <<>>]
    /\ InitHandler
    /\ cal1 \in {EventsOf(1, ds) : ds \in SeqsUpTo(DtStarts, MaxCalEvents)}
    /\ cal2 \in {EventsOf(2, ds) : ds \in SeqsUpTo(DtStarts, MaxCalEvents)}
    /\ events = <<>>
    /\ combinedCal = <<>>
    /\ kpc = "start"
    /\ addIdx = 0

aggVars == <<body, fetcherVars, handlerVars, wg, closes, panicked, cpc>>

\* combinedCal := ics.NewCalendar(); events := append(cal1.Events(),
\* cal2.Events()...)
CombineAppend ==
    /\ kpc = "start"
    /\ combinedCal' = <<>>
    /\ events' = cal1 \o cal2
    /\ kpc' = "sort"
    /\ UNCHANGED <<cal1, cal2, addIdx, aggVars>>

\* sort.Slice(events, ...)
CombineSort ==
    /\ kpc = "sort"
    /\ events' \in SortSliceOutcomes(events)
    /\ addIdx' = 1
    /\ kpc' = "add"
    /\ UNCHANGED <<cal1, cal2, combinedCal, aggVars>>

\* one iteration of the range loop: combinedCal.AddVEvent(event)
CombineAdd ==
    /\ kpc = "add"
    /\ addIdx <= Len(events)
    /\ combinedCal' = Append(combinedCal, events[addIdx])
    /\ addIdx' = addIdx + 1
    /\ UNCHANGED <<cal1, cal2, events, kpc, aggVars>>

\* return combinedCal
CombineReturn ==
    /\ kpc = "add"
    /\ addIdx > Len(events)
    /\ kpc' = "done"
    /\ UNCHANGED <<cal1, cal2, events, combinedCal, addIdx, aggVars>>

NextCombine ==
    \/ CombineAppend
    \/ CombineSort
    \/ CombineAdd
    \/ CombineReturn

\* ---------------------------------------------------------- specifications
Fetcher(s) ==
    \/ HttpGetFail(s)
    \/ HttpGetOk(s)
    \/ ReadError(s)
    \/ ReadEOF(s)
    \/ ReadLine(s)
    \/ Flush(s)
    \/ WgDone(s)

Closer == WgWait \/ CloseChan

Handler ==
    \/ Launch
    \/ GoCloser
    \/ WriteHeader
    \/ \E s \in Sources : Receive(s)
    \/ WriteEvent
    \/ ReceiveClosed
    \/ WriteFooter

Next ==
    \/ \E s \in Sources : Fetcher(s)
    \/ Closer
    \/ Handler

\* the aggregator on two small bodies
Spec == Init /\ [][Next]_vars

\* the aggregator with one source drawn from the scanner inputs
ScanSpec == InitScan /\ [][Next]_vars

\* one call of combineCalendars on two calendars
CombineSpec == InitCombine /\ [][NextCombine]_vars

\* the Go scheduler runs every goroutine that can take a step
LiveSpec ==
    /\ InitLive
    /\ [][Next]_vars
    /\ \A s \in Sources : WF_vars(Fetcher(s))
    /\ WF_vars(Closer)
    /\ WF_vars(Handler)

TypeOK ==
    /\ fpc \in [Sources -> {"notLaunched", "get", "read", "flush", "returned",
                            "exited", "panicked"} \cup SendStates]
    /\ wg \in 0..Len(icsURLs)
    /\ mpc \in {"launch", "header", "stream", "write", "footer", "done"}
    /\ cpc \in {"notStarted", "wait", "close", "done"}

\* ------------------------------------------------- auxiliary definitions
Range(q) == {q[i] : i \in 1..Len(q)}

IsPrefix(a, b) == Len(a) <= Len(b) /\ SubSeq(b, 1, Len(a)) = a

SeqToBag(q) == [x \in Range(q) |-> Cardinality({i \in 1..Len(q) : q[i] = x})]

\* the units of a sequence of records, in order
UnitsOf(q) == [i \in 1..Len(q) |-> q[i].unit]

\* what the consumer has received from source s, in order of receipt
ReceivedFrom(s) ==
    LET FromS(m) == m.src = s
    IN  SelectSeq(received, FromS)

RECURSIVE SumLen(_, _)
SumLen(f, S) ==
    IF S = {} THEN 0
    ELSE LET x == CHOOSE y \in S : TRUE
         IN  Len(f[x]) + SumLen(f, S \ {x})

RECURSIVE BagSum(_, _)
BagSum(f, S) ==
    IF S = {} THEN EmptyBag
    ELSE LET x == CHOOSE y \in S : TRUE
         IN  SeqToBag(UnitsOf(f[x])) (+) BagSum(f, S \ {x})

AllExited == \A s \in Sources : fpc[s] = "exited"

\* the stream step has seen ok = false
ObservedClosed == mpc \in {"footer", "done"}

IsSentinel(u) == \E s \in Sources : u \in {FetchErrorUnit(URL(s)), ReadErrorUnit(URL(s))}

\* ------------------------------------------------------------------ claims

\* C1: the event channel is closed at most once, it is closed only when the
\* WaitGroup counter is 0 and every launched fetcher has returned, the
\* handler leaves the streaming loop only with the channel closed once,
\* and no fetcher ever sends on the closed channel.
C1_ClosedOnceAfterAllFetchers ==
    /\ closes <= 1
    /\ closes = 1 => (wg = 0 /\ launched = Len(icsURLs) /\ AllExited)
    /\ ObservedClosed => closes = 1
    /\ ~panicked
    /\ \A s \in Sources : fpc[s] # "panicked"

C1_Witness ==
    /\ closes = 1
    /\ \A s \in Sources : Len(ReceivedFrom(s)) >= 2

\* C2: under fair scheduling every fetcher goroutine eventually returns,
\* the channel is eventually closed and the streaming loop eventually
\* observes the closure and stops: no producer stays blocked on a send and
\* the consumer does not stay blocked on the receive.
C2_EventuallyClosedAndDrained ==
    <>[](AllExited /\ closes = 1 /\ cpc = "done" /\ mpc = "done")

C2_Witness ==
    /\ AllExited /\ closes = 1 /\ mpc = "done"
    /\ \E s \in Sources : failed[s] = "read"
    /\ \E s \in Sources : Len(ReceivedFrom(s)) >= 2 /\ failed[s] = "none"

\* C3: when the consumer observes the channel closed it has received as
\* many units as the sources handed to their send statements, and the
\* multiset of received units is the union of the multisets the sources
\* sent: nothing lost, duplicated or altered.
C3_FanInComplete ==
    ObservedClosed =>
        /\ Len(received) = SumLen(produced, Sources)
        /\ SeqToBag(UnitsOf(received)) = BagSum(produced, Sources)

C3_Witness ==
    /\ ObservedClosed
    /\ Len(received) >= 4
    /\ \E i, j \in 1..Len(received) :
          i < j /\ received[i].unit = received[j].unit

\* C4: when a source fails, every unit of each source that did not fail is
\* received before the channel is closed and that fetcher has run to
\* completion; the failing source contributes units it completed before
\* the failure followed by its one sentinel, and nothing else.
C4_FailureIsolation ==
    closes >= 1 =>
        \A f \in Sources : failed[f] # "none" =>
            /\ \A s \in Sources \ {f} : failed[s] = "none" =>
                  /\ UnitsOf(ReceivedFrom(s)) = FetchUnits(body[s])
                  /\ fpc[s] = "exited"
            /\ LET rf == UnitsOf(ReceivedFrom(f))
               IN  /\ rf # <<>>
                   /\ IsSentinel(Last(rf))
                   /\ \A i \in 1..(Len(rf) - 1) : ~IsSentinel(rf[i])
                   /\ IsPrefix(SubSeq(rf, 1, Len(rf) - 1), FetchUnits(body[f]))

C4_Witness ==
    /\ closes >= 1
    /\ \E f \in Sources : \E s \in Sources \ {f} :
          /\ failed[f] = "read" /\ Len(ReceivedFrom(f)) = 2
          /\ failed[s] = "none" /\ Len(ReceivedFrom(s)) = 2
          /\ received[1].src = f /\ received[2].src = s
          /\ received[3].src = f /\ received[4].src = s

\* C5: in the received stream the units of one source appear in the order
\* in which they end in that source's byte stream: a complete unit is the
\* bytes just before the position its end-marker line ends at, a partial
\* unit runs up to the unterminated tail of the stream, and those
\* positions increase along the received stream.  Units of different
\* sources may interleave either way.
C5_PerSourceOrder ==
    \A j \in 1..Len(received) :
        LET m == received[j]
            b == body[m.src]
        IN  /\ m.kind = "sendEvent" =>
                 /\ m.at - Len(m.unit) >= 1
                 /\ SubSeq(b, m.at - Len(m.unit), m.at - 1) = m.unit
            /\ m.kind = "sendRemaining" =>
                 \E e \in 1..Len(b) :
                    /\ e - Len(m.unit) >= 0
                    /\ SubSeq(b, e - Len(m.unit) + 1, e) = m.unit
                    /\ \A k \in (e + 1)..Len(b) : b[k] # LF
            /\ \A i \in 1..(j - 1) :
                 (received[i].src = m.src /\ ~IsSentinel(m.unit)) =>
                     received[i].at < m.at

C5_Witness ==
    /\ Len(received) = 4
    /\ received[1].src = 1 /\ received[2].src = 2
    /\ received[3].src = 2 /\ received[4].src = 1
    /\ \A i \in 1..4 : ~IsSentinel(received[i].unit)

\* a unit whose first line is a begin-marker line
StartsWithBeginLine(u) ==
    \/ Len(u) >= 2 /\ SubSeq(u, 1, 2) = <<BEGIN, LF>>
    \/ Len(u) >= 3 /\ SubSeq(u, 1, 3) = <<BEGIN, CR, LF>>

\* a unit whose last line is an end-marker line
EndsWithEndLine(u) ==
    LET n == Len(u)
    IN  \/ n >= 3 /\ SubSeq(u, n - 1, n) = <<END, LF>> /\ u[n - 2] = LF
        \/ n >= 4 /\ SubSeq(u, n - 2, n) = <<END, CR, LF>> /\ u[n - 3] = LF

Finished(s) == fpc[s] \in {"returned", "exited"}

StreamEnded(s) == pos[s] = Len(body[s]) + 1 /\ fpc[s] \notin {"get", "read"}

\* C6: while a body is read without error, every unit FetchICS emits
\* starts with a begin-marker line and ends with an end-marker line,
\* except possibly the last unit emitted, and then the stream has ended
\* with the extractor InEvent.
C6_UnitsAreWholeEvents ==
    \A s \in Sources : failed[s] = "none" =>
        \A i \in 1..Len(produced[s]) :
            \/ /\ StartsWithBeginLine(produced[s][i].unit)
               /\ EndsWithEndLine(produced[s][i].unit)
            \/ /\ i = Len(produced[s])
               /\ StreamEnded(s)
               /\ inEvent[s]

C6_Witness ==
    /\ Finished(1)
    /\ failed[1] = "none"
    /\ body[1] = <<BEGIN, LF, END, CR, LF, BEGIN, CR, LF, TEXT>>
    /\ Len(produced[1]) = 2

\* C7: after a body-read error the fetcher has emitted its one sentinel
\* "Error reading response body: <url>" as its last unit and is sending it
\* or has returned; from then on it reads nothing and emits nothing, the
\* accumulated buffer is never flushed, and the units before the sentinel
\* are the complete events that preceded the error.
C7_ReadErrorOneSentinelThenReturn ==
    /\ [](\A s \in Sources : failed[s] = "read" =>
            /\ fpc[s] \in {"sendReadErr", "returned", "exited"}
            /\ Last(produced[s]).unit = ReadErrorUnit(URL(s))
            /\ \A i \in 1..(Len(produced[s]) - 1) :
                  /\ produced[s][i].kind = "sendEvent"
                  /\ produced[s][i].unit = FetchUnits(body[s])[i]
            /\ Finished(s) =>
                  UnitsOf(ReceivedFrom(s)) = UnitsOf(produced[s]))
    /\ [][\A s \in Sources : failed[s] = "read" =>
            /\ reads'[s] = reads[s]
            /\ pos'[s] = pos[s]
            /\ produced'[s] = produced[s]]_vars

C7_Witness ==
    /\ failed[1] = "read"
    /\ fpc[1] = "exited"
    /\ Len(produced[1]) = 2
    /\ event[1] = <<BEGIN, LF>>
    /\ pos[1] <= Len(body[1])

\* C8: FetchICS calls http.Get once per call; when the call fails it emits
\* the one unit "Error fetching URL: <url>" and returns, having read
\* nothing, opened no body and emitted nothing else.
C8_FetchErrorOneSentinelNoRetry ==
    \A s \in Sources :
        /\ fetches[s] <= 1
        /\ fpc[s] \notin {"notLaunched", "get"} => fetches[s] = 1
        /\ failed[s] = "conn" =>
              /\ UnitsOf(produced[s]) = <<FetchErrorUnit(URL(s))>>
              /\ reads[s] = 0
              /\ respBody[s] = [opens |-> 0, closes |-> 0]
              /\ fpc[s] \in {"sendFetchErr", "returned", "exited"}
              /\ Finished(s) => UnitsOf(ReceivedFrom(s)) = UnitsOf(produced[s])

C8_Witness ==
    /\ failed[1] = "conn"
    /\ fpc[1] = "exited"
    /\ Len(received) = 1
    /\ received[1].unit = <<"Error fetching URL: ", ColombianHolidaysURL>>
    /\ mpc = "done"

\* C9: once FetchICS has returned from a body read without error, it has
\* emitted after the complete events exactly one further unit, equal to
\* the accumulated buffer, if the stream ended InEvent, and no further
\* unit if it ended Idle.  A body that is just one terminated begin-marker
\* line gives the single unit holding that line, and the handler still
\* sees the channel closed once, with no panic.
C9_FlushAtEndOfStream ==
    /\ \A s \in Sources : (Finished(s) /\ failed[s] = "none") =>
          LET p == produced[s]
              rem == {i \in 1..Len(p) : p[i].kind = "sendRemaining"}
          IN  /\ \A i \in 1..Len(p) : p[i].kind \in {"sendEvent", "sendRemaining"}
              /\ inEvent[s] => (rem = {Len(p)} /\ Last(p).unit = event[s])
              /\ ~inEvent[s] => rem = {}
              /\ body[s] = <<BEGIN, LF>> => UnitsOf(p) = << <<BEGIN, LF>> >>
    /\ mpc = "done" => (closes = 1 /\ ~panicked /\ AllExited)

C9_Witness ==
    /\ body[1] = <<BEGIN, LF>>
    /\ failed = [s \in Sources |-> "none"]
    /\ mpc = "done"
    /\ UnitsOf(received) = << <<BEGIN, LF>> >>

\* the lines of a stream; the last one may lack its terminator
RECURSIVE SplitLines(_, _)
SplitLines(stream, p) ==
    IF p > Len(stream) THEN <<>>
    ELSE LET r == ReadString(stream, p)
         IN  <<r.line>> \o SplitLines(stream, r.next)

\* a marker line with its terminator changed to the other style
SwapTerminator(line) ==
    CASE line = <<BEGIN, CR, LF>> -> <<BEGIN, LF>>
      [] line = <<BEGIN, LF>> -> <<BEGIN, CR, LF>>
      [] line = <<END, CR, LF>> -> <<END, LF>>
      [] line = <<END, LF>> -> <<END, CR, LF>>
      [] OTHER -> line

\* a marker line with the bare line feed as its terminator
BareTerminator(line) ==
    IF line \in {<<BEGIN, CR, LF>>, <<END, CR, LF>>} THEN SwapTerminator(line)
    ELSE line

\* the stream with the terminators of the marker lines in mask swapped
Variant(stream, mask) ==
    LET ls == SplitLines(stream, 1)
    IN  Flatten([i \in 1..Len(ls) |->
                    IF i \in mask THEN SwapTerminator(ls[i]) ELSE ls[i]])

\* a unit up to the terminators of its marker lines
Canon(u) ==
    LET ls == SplitLines(u, 1)
    IN  Flatten([i \in 1..Len(ls) |-> BareTerminator(ls[i])])

\* C10: swapping the terminator of any set of begin-marker and end-marker
\* lines of a body between CRLF and LF leaves the number of units FetchICS
\* emits unchanged, and each unit the same up to the terminators of its
\* marker lines, with as many lines as before.
C10_TerminatorEquivalence ==
    mpc = "done" =>
        \A s \in Sources : failed[s] = "none" =>
            \A mask \in SUBSET (1..Len(SplitLines(body[s], 1))) :
                LET v == FetchUnits(Variant(body[s], mask))
                    o == UnitsOf(produced[s])
                IN  /\ Len(v) = Len(o)
                    /\ \A i \in 1..Len(o) :
                          /\ Canon(v[i]) = Canon(o[i])
                          /\ Len(SplitLines(v[i], 1)) = Len(SplitLines(o[i], 1))

C10_Witness ==
    /\ mpc = "done"
    /\ failed[1] = "none"
    /\ body[1] = <<BEGIN, CR, LF, TEXT, LF, END, LF>>
    /\ UnitsOf(produced[1]) = <<body[1]>>

\* C11: a call of FetchICS whose fetch succeeds opens one response body
\* and has closed it once when the call has returned, whichever way it
\* returns; before the return the body is not closed; a call whose fetch
\* fails opens and closes none; every read is from the open body.
C11_BodyLifecycle ==
    /\ [](\A s \in Sources :
            /\ respBody[s].opens <= 1
            /\ respBody[s].closes <= respBody[s].opens
            /\ ~Finished(s) => respBody[s].closes = 0
            /\ (Finished(s) /\ failed[s] # "conn") =>
                  respBody[s] = [opens |-> 1, closes |-> 1]
            /\ failed[s] = "conn" =>
                  respBody[s] = [opens |-> 0, closes |-> 0])
    /\ [][\A s \in Sources : reads'[s] # reads[s] =>
            respBody[s] = [opens |-> 1, closes |-> 0]]_vars

C11_Witness ==
    /\ AllExited
    /\ failed[1] = "read" /\ Len(produced[1]) = 2
    /\ failed[2] = "none" /\ Len(produced[2]) = 2
    /\ produced[2][2].kind = "sendRemaining"
    /\ respBody[1].closes = 1 /\ respBody[2].closes = 1

\* ------------------------------------------- the extractor, line by line
BeginMarkerLines == {<<BEGIN, CR, LF>>, <<BEGIN, LF>>}
EndMarkerLines == {<<END, CR, LF>>, <<END, LF>>}

\* fetcher s reads a terminated line in this step
LineRead(s) ==
    /\ fpc[s] = "read"
    /\ reads'[s] = reads[s] + 1
    /\ failed'[s] = failed[s]
    /\ ReadString(body[s], pos[s]).err = "nil"

\* the line it reads, and the positions of its bytes
NextLine(s) == ReadString(body[s], pos[s]).line
NextLineAt(s) == pos[s]..(ReadString(body[s], pos[s]).next - 1)

Max(S) == CHOOSE x \in S : \A y \in S : x >= y

\* the positions in the body of source s of the bytes of an emitted event:
\* a complete one ends where its end-marker line ends, a flushed one where
\* the last terminated line of the body ends
UnitAt(s, m) ==
    LET e == IF m.kind = "sendEvent" THEN m.at - 1
             ELSE Max({0} \cup {k \in 1..Len(body[s]) : body[s][k] = LF})
    IN  (e - Len(m.unit) + 1)..e

\* no byte the extractor let go of is in a unit it emitted
NothingDiscardedIsEmitted ==
    \A s \in Sources : \A i \in 1..Len(produced[s]) :
        produced[s][i].kind \in {"sendEvent", "sendRemaining"} =>
            /\ UnitAt(s, produced[s][i]) \cap dropped[s] = {}
            /\ UnitAt(s, produced[s][i]) \subseteq 1..Len(body[s])
            /\ produced[s][i].unit =
                  [k \in 1..Len(produced[s][i].unit) |->
                      body[s][k + Min(UnitAt(s, produced[s][i])) - 1]]

\* C14 as stated: while InEvent every line read, a begin-marker line too,
\* is appended to the buffer and the lines accumulated so far are kept.
C14_EveryLineAppended ==
    [][\A s \in Sources : (LineRead(s) /\ inEvent[s]) =>
          event'[s] = event[s] \o NextLine(s)]_vars

\* C14 amended: while InEvent every line read that is not a begin-marker
\* line is appended to the buffer; a begin-marker line restarts the buffer
\* with just that line, emits nothing, and the lines accumulated so far
\* are in no unit emitted later.
C14_AppendedUnlessBegin ==
    /\ [][\A s \in Sources : (LineRead(s) /\ inEvent[s]) =>
            IF NextLine(s) \in BeginMarkerLines
            THEN /\ event'[s] = NextLine(s)
                 /\ inEvent'[s]
                 /\ produced'[s] = produced[s]
                 /\ (pos[s] - Len(event[s]))..(pos[s] - 1) \subseteq dropped'[s]
            ELSE /\ event'[s] = event[s] \o NextLine(s)
                 /\ inEvent'[s]
                 /\ dropped'[s] = dropped[s]]_vars
    /\ [](mpc = "done" => NothingDiscardedIsEmitted)

C14_Witness ==
    /\ mpc = "done"
    /\ body[1] = <<BEGIN, LF, TEXT, LF, BEGIN, CR, LF>>
    /\ failed[1] = "none"
    /\ UnitsOf(received) = << <<BEGIN, CR, LF>> >>
    /\ dropped[1] = 1..4

\* C15 as stated: the partial unit flushed at the end of the stream holds
\* everything from the most recent begin-marker line up to the end of the
\* stream, a final line without terminator included.
C15_PartialUnitReachesEndOfStream ==
    \A s \in Sources : \A i \in 1..Len(produced[s]) :
        produced[s][i].kind = "sendRemaining" =>
            LET u == produced[s][i].unit
                b == body[s]
            IN  /\ StartsWithBeginLine(u)
                /\ Len(u) <= Len(b)
                /\ SubSeq(b, Len(b) - Len(u) + 1, Len(b)) = u

\* C16: while Idle a line that is not a begin-marker line is discarded: the
\* step emits nothing, leaves the extractor Idle with an empty buffer and
\* goes on reading, and the bytes of the line are in no unit emitted later.
C16_IdleLineDiscarded ==
    /\ [][\A s \in Sources :
            (LineRead(s) /\ ~inEvent[s] /\ NextLine(s) \notin BeginMarkerLines) =>
                /\ produced'[s] = produced[s]
                /\ fpc'[s] = "read"
                /\ ~inEvent'[s]
                /\ event[s] = <<>> /\ event'[s] = <<>>
                /\ NextLineAt(s) \subseteq dropped'[s]]_vars
    /\ [](Finished(1) => NothingDiscardedIsEmitted)

C16_Witness ==
    /\ Finished(1)
    /\ failed[1] = "none"
    /\ body[1] = <<END, LF, BEGIN, LF, END, CR, LF>>
    /\ UnitsOf(produced[1]) = << <<BEGIN, LF, END, CR, LF>> >>
    /\ dropped[1] = {1, 2}

\* C19: at every boundary of the scan loop and at its exit inEvent is true
\* exactly when the buffer is non-empty, so the flush after the loop is
\* taken exactly when the stream ended InEvent; no emitted unit is empty.
C19_InEventIffBufferNonEmpty ==
    \A s \in Sources :
        /\ fpc[s] \in {"read", "flush"} => (inEvent[s] <=> event[s] # <<>>)
        /\ \A i \in 1..Len(produced[s]) :
              /\ produced[s][i].unit # <<>>
              /\ (i < Len(produced[s]) /\ failed[s] = "none") =>
                    produced[s][i].kind = "sendEvent"
        /\ (Finished(s) /\ failed[s] = "none") =>
              (inEvent[s] <=>
                  (produced[s] # <<>> /\ Last(produced[s]).kind = "sendRemaining"))

C19_Witness ==
    /\ fpc[1] = "flush"
    /\ inEvent[1]
    /\ event[1] = <<BEGIN, CR, LF>>
    /\ Len(produced[1]) = 1

\* C20: every complete unit FetchICS emits has exactly one begin-marker
\* line, its first line, and exactly one end-marker line, its last line.
C20_OneBeginOneEndPerUnit ==
    \A s \in Sources : \A i \in 1..Len(produced[s]) :
        produced[s][i].kind = "sendEvent" =>
            LET ls == SplitLines(produced[s][i].unit, 1)
            IN  /\ Len(ls) >= 2
                /\ {k \in 1..Len(ls) : ls[k] \in BeginMarkerLines} = {1}
                /\ {k \in 1..Len(ls) : ls[k] \in EndMarkerLines} = {Len(ls)}

C20_Witness ==
    /\ Finished(1)
    /\ body[1] = <<BEGIN, LF, BEGIN, CR, LF, END, LF>>
    /\ UnitsOf(produced[1]) = << <<BEGIN, CR, LF, END, LF>> >>

\* C17: a fetcher stays at its send statement until the consumer receives
\* the unit: while there it reads nothing, it leaves only by the receive
\* of that very unit, and at any time a source has at most one unit
\* produced and not yet received, namely when its fetcher is at a send.
C17_Backpressure ==
    /\ [](\A s \in Sources :
            LET undelivered == Len(produced[s]) - Len(ReceivedFrom(s))
            IN  /\ undelivered \in {0, 1}
                /\ undelivered = 1 <=> fpc[s] \in SendStates)
    /\ [][\A s \in Sources : fpc[s] \in SendStates =>
            /\ reads'[s] = reads[s]
            /\ pos'[s] = pos[s]
            /\ produced'[s] = produced[s]
            /\ fpc'[s] # fpc[s] =>
                  /\ Len(received') = Len(received) + 1
                  /\ Last(received').src = s
                  /\ Last(received').unit = Last(produced[s]).unit]_vars

C17_Witness ==
    /\ fpc[1] = "sendEvent" /\ pos[1] <= Len(body[1])
    /\ fpc[2] = "sendRemaining"
    /\ mpc = "write"
    /\ Len(received) = 1

\* C18: the handler writes the header once and first, then each received
\* unit in the order of receipt, and the footer once and last, after it has
\* seen the channel closed and has written every received unit.
C18_OutputOrder ==
    LET units == UnitsOf(received)
    IN  /\ mpc \in {"launch", "header"} => out = <<>>
        /\ mpc = "stream" => out = <<Header>> \o units
        /\ mpc = "write" =>
              out = <<Header>> \o SubSeq(units, 1, Len(units) - 1)
        /\ mpc = "footer" => (out = <<Header>> \o units /\ closes = 1)
        /\ mpc = "done" =>
              (out = <<Header>> \o units \o <<Footer>> /\ closes = 1)

C18_Witness ==
    /\ mpc = "done"
    /\ Len(out) = 6
    /\ received[1].src = 2 /\ received[2].src = 1

\* a is at most b in the lexicographic order of strings
LexLeq(a, b) ==
    \E k \in 0..Len(a) :
        /\ k <= Len(b)
        /\ SubSeq(a, 1, k) = SubSeq(b, 1, k)
        /\ \/ k = Len(a)
           \/ k < Len(b) /\ a[k + 1] < b[k + 1]

DtStartsOf(q) == [i \in 1..Len(q) |-> q[i].dtstart]

\* C12: combineCalendars returns a calendar holding the a+b events of its
\* two arguments, each once, in non-decreasing lexicographic order of the
\* raw DTSTART strings; 20230101, 20230720 with 20230101, 20230701 gives
\* 20230101, 20230101, 20230701, 20230720.
C12_CombinedSortedUnion ==
    kpc = "done" =>
        /\ Len(combinedCal) = Len(cal1) + Len(cal2)
        /\ SeqToBag(combinedCal) = SeqToBag(cal1) (+) SeqToBag(cal2)
        /\ \A i, j \in 1..Len(combinedCal) :
              i < j => LexLeq(combinedCal[i].dtstart, combinedCal[j].dtstart)
        /\ (/\ DtStartsOf(cal1) = <<<<2,0,2,3,0,1,0,1>>, <<2,0,2,3,0,7,2,0>>>>
            /\ DtStartsOf(cal2) = <<<<2,0,2,3,0,1,0,1>>, <<2,0,2,3,0,7,0,1>>>>)
           => DtStartsOf(combinedCal) =
                 <<<<2,0,2,3,0,1,0,1>>, <<2,0,2,3,0,1,0,1>>,
                   <<2,0,2,3,0,7,0,1>>, <<2,0,2,3,0,7,2,0>>>>

C12_Witness ==
    /\ kpc = "done"
    /\ DtStartsOf(cal1) = <<<<2,0,2,3,0,1,0,1>>, <<2,0,2,3,0,7,2,0>>>>
    /\ DtStartsOf(cal2) = <<<<2,0,2,3,0,1,0,1>>, <<2,0,2,3,0,7,0,1>>>>
    /\ Len(combinedCal) = 4

\* C13 as stated: events with equal raw DTSTART strings are in the result
\* in the order they have in cal1's events followed by cal2's events.
C13_SortIsStable ==
    kpc = "done" =>
        LET all == cal1 \o cal2
            At(e) == CHOOSE k \in 1..Len(combinedCal) : combinedCal[k] = e
        IN  \A i, j \in 1..Len(all) :
                (i < j /\ all[i].dtstart = all[j].dtstart) =>
                    At(all[i]) < At(all[j])
====
